---- MODULE Spec2Model ----
(***************************************************************************)
(* Model of src/coracoes.js: the heart-particle lifecycle (criarCoracao),  *)
(* the global counter in CoracoesConfig, the timer-driven spawners and the *)
(* limit setter.  The browser's event loop is modelled by the pending      *)
(* setTimeout timers (each with the time left until it is due), the queue  *)
(* of timers that are due, and per-heart animation state.  Time is in      *)
(* milliseconds and relative.  JavaScript numbers that may be fractional   *)
(* (the argument of ajustarMaximoCoracoesSimultaneos and the stored limit) *)
(* are kept in halves: the field "meios" holds twice the value.            *)
(* Probabilities (Math.random() and the chance option) are in hundredths,  *)
(* positions in whole pixels.                                              *)
(***************************************************************************)
EXTENDS Integers, Sequences, FiniteSets, TLC

\* ---------------------------------------------------------------- bounds
\* Hearts ever admitted in one run (the ids 1..MaxCoracoes).
MaxCoracoes == 3
\* Largest limit passed to ajustarMaximoCoracoesSimultaneos.
MaxLimite == 2
\* Largest quantidade passed to chuvaDeCoracoes, and the number of spawn
\* attempts all the batches of one run schedule together.
MaxQtd == 2

\* ---------------------------------------------------------------- inputs
\* duracao arguments tried (multiples of 5, so that duracao * 0.8 is exact).
Duracoes == {100}
\* intervalo arguments tried for chuvaDeCoracoes.
Intervalos == {0, 50}

\* ------------------------------------------------------ JavaScript values
\* A JavaScript value as far as typeof and the comparison "> 0" see it.
Finito(m)  == [tipo |-> "number", classe |-> "finito", meios |-> m]
NaN        == [tipo |-> "number", classe |-> "NaN", meios |-> 0]
Infinito   == [tipo |-> "number", classe |-> "Infinity", meios |-> 0]
Texto(m)   == [tipo |-> "string", classe |-> "finito", meios |-> m]
Indefinido == [tipo |-> "undefined", classe |-> "finito", meios |-> 0]
Inteiro(n) == Finito(2 * n)

\* valor > 0 on a value of type number (NaN > 0 is false, Infinity > 0 true).
MaiorQueZero(v) ==
  \/ v.classe = "Infinity"
  \/ v.classe = "finito" /\ v.meios > 0

\* n >= limite, n an integer counter and limite a stored number.
MaiorOuIgual(n, limite) ==
  /\ limite.classe = "finito"
  /\ 2 * n >= limite.meios

\* The limits the page is configured with before the first heart.
LimitesIniciais == {Inteiro(1), Inteiro(2)}

\* Arguments tried for ajustarMaximoCoracoesSimultaneos.
Valores ==
  {Finito(m) : m \in ({-10, 0} \cup (2 .. 2 * MaxLimite))}
    \cup {NaN, Infinito, Texto(4), Indefinido}

\* ------------------------------------------------------------------ state
VARIABLES
  maxCoracoesSimultaneos,  \* CoracoesConfig.maxCoracoesSimultaneos
  coracoesAtivos,          \* CoracoesConfig.coracoesAtivos
  isMobile,                \* CoracoesConfig.isMobile
  coracoes,                \* the hearts created so far, by id
  timers,                  \* setTimeout callbacks not yet due, in call order
  fila,                    \* setTimeout callbacks that are due, in run order
  agendados,               \* spawn attempts scheduled by the timed spawners so far
  ultima,                  \* the call of the public API made in the last step
  pulsantes,               \* the hearts given a second, pulsing animation
  mouse,                   \* the mousemove listener of coracoesComMouse
  transicao                \* the overlay and the navigation of transicaoComCoracoes

vars == <<maxCoracoesSimultaneos, coracoesAtivos, isMobile, coracoes, timers,
          fila, agendados, ultima, pulsantes, mouse, transicao>>

NULL == 0

\* A call of an exported function whose answer depends on its argument or
\* on the state: its name, the heart it returned (NULL for null or nothing)
\* and its argument (valor of the limit setter).  Nenhuma when the last step
\* was something else.
Chamada(op, h, arg) == [op |-> op, h |-> h, arg |-> arg]

Nenhuma == Chamada("nenhuma", NULL, Indefinido)

\* setTimeout(callback, delay): falta is the time left until it is due; the
\* other fields are what the callback's closure holds: the heart (fallback),
\* or the batch, its arguments and the loop index (chuvaDeCoracoes).
Timer(tipo, delay, h, lote, quantidade, intervalo, i) ==
  [tipo |-> tipo, delay |-> delay, falta |-> IF delay < 0 THEN 0 ELSE delay,
   h |-> h, lote |-> lote, quantidade |-> quantidade,
   intervalo |-> intervalo, i |-> i]

Range(s) == {s[k] : k \in 1 .. Len(s)}

Ids == 1 .. Len(coracoes)

NoDOM == {h \in Ids : coracoes[h].noDOM}

Pendentes == Range(timers) \cup Range(fila)

Init ==
  /\ maxCoracoesSimultaneos \in LimitesIniciais
  /\ coracoesAtivos = 0
  /\ isMobile \in BOOLEAN
  /\ coracoes = <<>>
  /\ timers = <<>>
  /\ fila = <<>>
  /\ agendados = 0
  /\ ultima = Nenhuma
  /\ pulsantes = {}
  /\ mouse = [ligado |-> FALSE, chance |-> 0, intervaloMinimo |-> 0,
              desde |-> 0, sorteio |-> 0]
  /\ transicao = [fadeOut |-> "nenhum", tempoEspera |-> 0, navegacoes |-> 0]

\* ----------------------------------------------------------- criarCoracao
\* The admission test off by one (> for >=).
LimiteAtingidoMut(ativos, limite) == MaiorOuIgual(ativos - 1, limite)

\* The admission test of criarCoracao.
LimiteAtingido(ativos, limite) == MaiorOuIgual(ativos, limite)

\* duration option of coracao.animate.
DuracaoAnimacao(duracao) == IF isMobile THEN (duracao * 8) \div 10 ELSE duracao

\* delay of the fallback setTimeout.
AtrasoFallback(duracao) == duracao + 100

\* criarCoracao with the counter incremented before the limit is tested.
criarCoracaoMut(duracao, direto) ==
  IF LimiteAtingido(coracoesAtivos, maxCoracoesSimultaneos)
  THEN /\ coracoesAtivos' = coracoesAtivos + 1
       /\ ultima' = IF direto
                    THEN Chamada("criarCoracao", NULL, Indefinido)
                    ELSE Nenhuma
       /\ UNCHANGED <<coracoes, timers>>
  ELSE /\ Len(coracoes) < MaxCoracoes
       /\ coracoesAtivos' = coracoesAtivos + 1
       /\ coracoes' = Append(coracoes,
            [noDOM |-> TRUE, onfinish |-> "pendente",
             falta |-> DuracaoAnimacao(duracao),
             decrementos |-> 0])
       /\ timers' = Append(timers,
            Timer("fallback", AtrasoFallback(duracao), Len(coracoes) + 1, 0, 0,
                  0, 0))
       /\ ultima' = IF direto
                    THEN Chamada("criarCoracao", Len(coracoes) + 1,
                                 Indefinido)
                    ELSE Nenhuma

\* criarCoracao(x, y, tamanho, duracao, emoji); direto tells a call of the
\* exported function from a call made by a timer callback, whose caller
\* drops the result.
criarCoracao(duracao, direto) ==
  IF LimiteAtingido(coracoesAtivos, maxCoracoesSimultaneos)
  THEN /\ ultima' = IF direto
                    THEN Chamada("criarCoracao", NULL, Indefinido)
                    ELSE Nenhuma
       /\ UNCHANGED <<coracoesAtivos, coracoes, timers>>
  ELSE /\ Len(coracoes) < MaxCoracoes
       /\ coracoesAtivos' = coracoesAtivos + 1
       /\ coracoes' = Append(coracoes,
            [noDOM |-> TRUE, onfinish |-> "pendente",
             falta |-> DuracaoAnimacao(duracao),
             decrementos |-> 0])
       /\ timers' = Append(timers,
            Timer("fallback", AtrasoFallback(duracao), Len(coracoes) + 1, 0, 0,
                  0, 0))
       /\ ultima' = IF direto
                    THEN Chamada("criarCoracao", Len(coracoes) + 1,
                                 Indefinido)
                    ELSE Nenhuma

\* A direct call of window.criarCoracao.
CriarCoracao ==
  /\ \E d \in Duracoes : criarCoracao(d, TRUE)
  /\ UNCHANGED <<maxCoracoesSimultaneos, isMobile, fila, agendados, pulsantes,
                 mouse, transicao>>

\* animacao.onfinish of heart h.
OnFinish(h) ==
  /\ coracoes[h].onfinish = "pendente"
  /\ coracoes[h].falta = 0
  /\ coracoes' = [coracoes EXCEPT ![h].noDOM = FALSE,
                                  ![h].onfinish = "disparado",
                                  ![h].decrementos = @ + 1]
  /\ coracoesAtivos' = coracoesAtivos - 1
  /\ ultima' = Nenhuma
  /\ UNCHANGED <<maxCoracoesSimultaneos, isMobile, timers, fila, agendados,
                 pulsantes, mouse, transicao>>

\* The fallback callback without its test.
ContemMut(h) == TRUE

\* document.body.contains(coracao) in the fallback callback.
Contem(h) == coracoes[h].noDOM

\* The fallback setTimeout callback of heart t.h.
Fallback(t) ==
  /\ IF Contem(t.h)
     THEN /\ coracoes' = [coracoes EXCEPT ![t.h].noDOM = FALSE,
                                          ![t.h].decrementos = @ + 1]
          /\ coracoesAtivos' = coracoesAtivos - 1
     ELSE UNCHANGED <<coracoes, coracoesAtivos>>
  /\ ultima' = Nenhuma
  /\ UNCHANGED <<maxCoracoesSimultaneos, isMobile, timers, agendados,
                 pulsantes, mouse, transicao>>

\* Some other script detaches heart h from document.body.
RemoverExterno(h) ==
  /\ coracoes[h].noDOM
  /\ coracoes' = [coracoes EXCEPT ![h].noDOM = FALSE]
  /\ ultima' = Nenhuma
  /\ UNCHANGED <<maxCoracoesSimultaneos, coracoesAtivos, isMobile, timers,
                 fila, agendados, pulsantes, mouse, transicao>>

\* -------------------------------------------------------- chuvaDeCoracoes
\* qtdAjustada: Math.floor(quantidade * 0.6) on mobile.
QtdAjustada(quantidade) ==
  IF isMobile THEN (quantidade * 6) \div 10 ELSE quantidade

\* The delays counted down instead of up.
AtrasoChuvaMut(i, intervalo) == (MaxQtd - i) * intervalo

\* delay of the i-th setTimeout of the batch.
AtrasoChuva(i, intervalo) == i * intervalo

\* The timers of one batch, in the order the loop registers them.
TimersDaChuva(quantidade, intervalo, lote) ==
  [k \in 1 .. QtdAjustada(quantidade) |->
     Timer("chuva", AtrasoChuva(k - 1, intervalo), NULL, lote, quantidade,
           intervalo, k - 1)]

JaVenceu(t) == t.falta = 0

AindaNao(t) == t.falta > 0

\* chuvaDeCoracoes(quantidade, intervalo); a batch is named by the number
\* of its first attempt among all the attempts scheduled.
ChuvaDeCoracoes ==
  /\ \E quantidade \in 0 .. MaxQtd, intervalo \in Intervalos :
       LET n == QtdAjustada(quantidade)
           novos == TimersDaChuva(quantidade, intervalo, agendados + 1)
       IN /\ agendados + n <= MaxQtd
          /\ timers' = timers \o SelectSeq(novos, AindaNao)
          /\ fila' = fila \o SelectSeq(novos, JaVenceu)
          /\ agendados' = agendados + n
          /\ ultima' = Nenhuma
  /\ UNCHANGED <<maxCoracoesSimultaneos, coracoesAtivos, isMobile, coracoes,
                 pulsantes, mouse, transicao>>

\* The callback of one setTimeout of a batch: one criarCoracao call.
Chuva(t) ==
  /\ \E d \in Duracoes : criarCoracao(d, FALSE)
  /\ UNCHANGED <<maxCoracoesSimultaneos, isMobile, agendados, pulsantes,
                 mouse, transicao>>

\* --------------------------------------------------- criarCoracaoPulsante
\* The pulse animation started on whatever criarCoracao returned.
CriarCoracaoPulsanteMut ==
  /\ \E d \in Duracoes : criarCoracao(d, TRUE)
  /\ pulsantes' = pulsantes \cup {Len(coracoes) + 1}
  /\ UNCHANGED <<maxCoracoesSimultaneos, isMobile, fila, agendados, mouse,
                 transicao>>

\* criarCoracaoPulsante(x, y, opcoes): the base heart, and on it (when there
\* is one) the second animation; the value returned is the base call's.
CriarCoracaoPulsante ==
  /\ \E d \in Duracoes : criarCoracao(d, TRUE)
  /\ pulsantes' = IF ultima'.h = NULL
                  THEN pulsantes
                  ELSE pulsantes \cup {ultima'.h}
  /\ UNCHANGED <<maxCoracoesSimultaneos, isMobile, fila, agendados, mouse,
                 transicao>>

\* ------------------------------------------------------ circuloDeCoracoes
\* opcao || padrao on a numeric option: 0, like a missing option, is falsy.
OuPadrao(opcao, padrao) == IF opcao = 0 THEN padrao ELSE opcao

\* Arguments tried: x and y, quantidade (the values that make every angle a
\* multiple of a quarter turn), opcoes.raio.
Centros == {100}
Quantidades == {0, 1, 2, 4}
Raios == {0, 50}

\* Attempts all the rings of one run schedule together.
MaxCirculo == 4

\* angulo = (i / quantidade) * Math.PI * 2, counted in quarter turns.
Quartos(i, quantidade) == (4 * i) \div quantidade

\* Math.cos and Math.sin of q quarter turns (the floating-point results are
\* within 2e-16 of these).
Cos(q) == CASE q % 4 = 0 -> 1 [] q % 4 = 2 -> -1 [] OTHER -> 0

Sin(q) == CASE q % 4 = 1 -> 1 [] q % 4 = 3 -> -1 [] OTHER -> 0

\* The i-th setTimeout of circuloDeCoracoes: its closure holds posX, posY
\* and the opcoes object.
TimerDoCirculo(x, y, quantidade, raio, intervalo, lote, i) ==
  [tipo |-> "circulo", delay |-> i * OuPadrao(intervalo, 100),
   falta |-> i * OuPadrao(intervalo, 100), h |-> NULL, lote |-> lote,
   quantidade |-> quantidade, intervalo |-> intervalo, i |-> i,
   raio |-> raio,
   x |-> x + Cos(Quartos(i, quantidade)) * OuPadrao(raio, 50),
   y |-> y + Sin(Quartos(i, quantidade)) * OuPadrao(raio, 50)]

\* circuloDeCoracoes(x, y, quantidade, {raio, intervalo}).
CirculoDeCoracoes ==
  /\ \E x \in Centros, y \in Centros, quantidade \in Quantidades,
        raio \in Raios, intervalo \in Intervalos :
       LET novos == [k \in 1 .. quantidade |->
                       TimerDoCirculo(x, y, quantidade, raio, intervalo,
                                      agendados + 1, k - 1)]
       IN /\ agendados + quantidade <= MaxCirculo
          /\ timers' = timers \o SelectSeq(novos, AindaNao)
          /\ fila' = fila \o SelectSeq(novos, JaVenceu)
          /\ agendados' = agendados + quantidade
          /\ ultima' = Nenhuma
  /\ UNCHANGED <<maxCoracoesSimultaneos, coracoesAtivos, isMobile, coracoes,
                 pulsantes, mouse, transicao>>

\* The callback of one setTimeout of a ring: one criarCoracao call.
Circulo(t) ==
  /\ \E d \in Duracoes : criarCoracao(d, FALSE)
  /\ UNCHANGED <<maxCoracoesSimultaneos, isMobile, agendados, pulsantes,
                 mouse, transicao>>

\* ------------------------------------------------------- coracoesComMouse
\* opcoes.chance (hundredths) and opcoes.intervaloMinimo (ms) tried, and the
\* values Math.random() returns (hundredths, below 100).
Chances == {0, 100}
IntervalosMinimos == {0, 200}
Sorteios == {0, 50}

\* config.chance and config.intervaloMinimo of the listener.
Chance(m) == OuPadrao(m.chance, 3)

IntervaloMinimo(m) == OuPadrao(m.intervaloMinimo, 100)

\* agora - ultimoCoracao is kept up to this value: every longer time passes
\* the listener's time test alike.
Limiar(m) == IntervaloMinimo(m) + 1

Mais(x, d, teto) == IF x + d > teto THEN teto ELSE x + d

\* coracoesComMouse(opcoes): ultimoCoracao starts at 0, so that Date.now()
\* is far beyond it.
CoracoesComMouse ==
  /\ ~ mouse.ligado
  /\ \E chance \in Chances, intervaloMinimo \in IntervalosMinimos :
       mouse' = [ligado |-> TRUE, chance |-> chance,
                 intervaloMinimo |-> intervaloMinimo,
                 desde |-> OuPadrao(intervaloMinimo, 100) + 1,
                 sorteio |-> 0]
  /\ ultima' = Nenhuma
  /\ UNCHANGED <<maxCoracoesSimultaneos, coracoesAtivos, isMobile, coracoes,
                 timers, fila, agendados, pulsantes, transicao>>

\* The listener restarting its cooldown only when the heart was admitted.
MoverMouseMut ==
  /\ mouse.ligado
  /\ IF mouse.desde > IntervaloMinimo(mouse)
     THEN \E sorteio \in Sorteios :
            IF sorteio < Chance(mouse)
            THEN /\ \E d \in Duracoes : criarCoracao(d, TRUE)
                 /\ mouse' = [mouse EXCEPT
                      !.desde = IF ultima'.h = NULL THEN @ ELSE 0,
                      !.sorteio = sorteio]
            ELSE /\ mouse' = [mouse EXCEPT !.sorteio = sorteio]
                 /\ ultima' = Chamada("mousemove", NULL, Indefinido)
                 /\ UNCHANGED <<coracoesAtivos, coracoes, timers>>
     ELSE /\ ultima' = Chamada("mousemove", NULL, Indefinido)
          /\ UNCHANGED <<mouse, coracoesAtivos, coracoes, timers>>
  /\ UNCHANGED <<maxCoracoesSimultaneos, isMobile, fila, agendados, pulsantes,
                 transicao>>

\* The mousemove listener on one movement sample; sorteio is the value of
\* Math.random() in the condition, drawn only when the time test passed.
MoverMouse ==
  /\ mouse.ligado
  /\ IF mouse.desde > IntervaloMinimo(mouse)
     THEN \E sorteio \in Sorteios :
            IF sorteio < Chance(mouse)
            THEN /\ mouse' = [mouse EXCEPT !.desde = 0, !.sorteio = sorteio]
                 /\ \E d \in Duracoes : criarCoracao(d, TRUE)
            ELSE /\ mouse' = [mouse EXCEPT !.sorteio = sorteio]
                 /\ ultima' = Chamada("mousemove", NULL, Indefinido)
                 /\ UNCHANGED <<coracoesAtivos, coracoes, timers>>
     ELSE /\ ultima' = Chamada("mousemove", NULL, Indefinido)
          /\ UNCHANGED <<mouse, coracoesAtivos, coracoes, timers>>
  /\ UNCHANGED <<maxCoracoesSimultaneos, isMobile, fila, agendados, pulsantes,
                 transicao>>

\* --------------------------------------------------- transicaoComCoracoes
\* tempoEspera arguments tried.
Esperas == {50, 150}

\* transicaoComCoracoes(url, quantidade, tempoEspera): the rain batch, the
\* overlay appended to the body, then the two setTimeout calls.
TransicaoComCoracoes ==
  /\ transicao.fadeOut = "nenhum"
  /\ \E quantidade \in 0 .. MaxQtd, tempoEspera \in Esperas :
       LET n == QtdAjustada(quantidade)
           novos == TimersDaChuva(quantidade, 30, agendados + 1)
                      \o <<Timer("fadeOut", 100, NULL, 0, 0, 0, 0),
                           Timer("navegar", tempoEspera, NULL, 0, 0, 0, 0)>>
       IN /\ agendados + n <= MaxQtd
          /\ timers' = timers \o SelectSeq(novos, AindaNao)
          /\ fila' = fila \o SelectSeq(novos, JaVenceu)
          /\ agendados' = agendados + n
          /\ transicao' = [fadeOut |-> "anexado", tempoEspera |-> tempoEspera,
                           navegacoes |-> 0]
  /\ ultima' = Nenhuma
  /\ UNCHANGED <<maxCoracoesSimultaneos, coracoesAtivos, isMobile, coracoes,
                 pulsantes, mouse>>

\* The callback that starts the fade of the overlay.
FadeOut(t) ==
  /\ transicao' = [transicao EXCEPT !.fadeOut = "iniciado"]
  /\ ultima' = Nenhuma
  /\ UNCHANGED <<maxCoracoesSimultaneos, coracoesAtivos, isMobile, coracoes,
                 timers, agendados, pulsantes, mouse>>

\* The callback that assigns window.location.href; the page goes on running
\* until the new document arrives.
Navegar(t) ==
  /\ transicao' = [transicao EXCEPT !.navegacoes = @ + 1]
  /\ ultima' = Nenhuma
  /\ UNCHANGED <<maxCoracoesSimultaneos, coracoesAtivos, isMobile, coracoes,
                 timers, agendados, pulsantes, mouse>>

\* ------------------------------------------------------------- event loop
\* The event loop runs the timer callback that became due first.
DispararTimer ==
  /\ fila # <<>>
  /\ fila' = Tail(fila)
  /\ LET t == Head(fila)
     IN \/ t.tipo = "fallback" /\ Fallback(t)
        \/ t.tipo = "chuva" /\ Chuva(t)

\* The same, for a callback of circuloDeCoracoes.
DispararCirculo ==
  /\ fila # <<>>
  /\ fila' = Tail(fila)
  /\ Head(fila).tipo = "circulo"
  /\ Circulo(Head(fila))

\* The same, for the callbacks of transicaoComCoracoes.
DispararTransicao ==
  /\ fila # <<>>
  /\ fila' = Tail(fila)
  /\ LET t == Head(fila)
     IN \/ t.tipo = "fadeOut" /\ FadeOut(t)
        \/ t.tipo = "navegar" /\ Navegar(t)

\* The time left until the listener's time test changes its answer.
FaltaDoMouse == IF mouse.ligado THEN Limiar(mouse) - mouse.desde ELSE 0

Faltas ==
  {t.falta : t \in Range(timers)} \cup {coracoes[h].falta : h \in Ids}
    \cup {FaltaDoMouse}

Menos(x, d) == IF x > d THEN x - d ELSE 0

Decorrido(t, d) == [t EXCEPT !.falta = Menos(@, d)]

\* Time passes up to the next deadline: the timers that become due join the
\* queue in the order they were registered, the animations that end may
\* report it.  A callback may run late: time can pass while callbacks that
\* are due have not run yet.
PassarTempo ==
  /\ \E d \in Faltas :
       /\ d > 0
       /\ \A e \in Faltas : e > 0 => d <= e
       /\ LET ts == [k \in 1 .. Len(timers) |-> Decorrido(timers[k], d)]
          IN /\ timers' = SelectSeq(ts, AindaNao)
             /\ fila' = fila \o SelectSeq(ts, JaVenceu)
       /\ coracoes' = [h \in Ids |-> Decorrido(coracoes[h], d)]
       /\ mouse' = IF mouse.ligado
                   THEN [mouse EXCEPT !.desde = Mais(@, d, Limiar(mouse))]
                   ELSE mouse
  /\ ultima' = Nenhuma
  /\ UNCHANGED <<maxCoracoesSimultaneos, coracoesAtivos, isMobile, agendados,
                 pulsantes, transicao>>

\* --------------------------------------- ajustarMaximoCoracoesSimultaneos
\* The validation of the argument.
Aceita(valor) == valor.tipo = "number" /\ MaiorQueZero(valor)

\* The setter also cutting the counter down to the new limit.
AjustarMut ==
  /\ \E valor \in Valores :
       /\ maxCoracoesSimultaneos' =
            IF Aceita(valor) THEN valor ELSE maxCoracoesSimultaneos
       /\ coracoesAtivos' =
            IF Aceita(valor) /\ MaiorOuIgual(coracoesAtivos, valor)
            THEN (valor.meios + 1) \div 2
            ELSE coracoesAtivos
       /\ ultima' = Chamada("ajustarMaximoCoracoesSimultaneos", NULL, valor)
  /\ UNCHANGED <<isMobile, coracoes, timers, fila, agendados, pulsantes,
                 mouse, transicao>>

AjustarMaximoCoracoesSimultaneos ==
  /\ \E valor \in Valores :
       /\ maxCoracoesSimultaneos' =
            IF Aceita(valor) THEN valor ELSE maxCoracoesSimultaneos
       /\ ultima' = Chamada("ajustarMaximoCoracoesSimultaneos", NULL, valor)
  /\ UNCHANGED <<coracoesAtivos, isMobile, coracoes, timers, fila, agendados,
                 pulsantes, mouse, transicao>>

\* ---------------------------------------------------------- specifications
Finish == \E h \in Ids : OnFinish(h)

Externo == \E h \in Ids : RemoverExterno(h)

\* The life of the hearts spawned by direct calls, on a page where other
\* scripts may detach them.
NextVida ==
  \/ CriarCoracao
  \/ Finish
  \/ DispararTimer
  \/ PassarTempo
  \/ Externo

SpecVida == Init /\ [][NextVida]_vars

\* The same, with the timers guaranteed to run (setTimeout callbacks are
\* eventually called); nothing guarantees that onfinish is ever called.
FairVida == SpecVida /\ WF_vars(DispararTimer) /\ WF_vars(PassarTempo)

\* The program with the limit left as configured: direct calls and batches.
NextFixo ==
  \/ CriarCoracao
  \/ Finish
  \/ DispararTimer
  \/ PassarTempo
  \/ ChuvaDeCoracoes

SpecFixo == Init /\ [][NextFixo]_vars

\* Batches only.
NextChuva ==
  \/ ChuvaDeCoracoes
  \/ Finish
  \/ DispararTimer
  \/ PassarTempo

SpecChuva == Init /\ [][NextChuva]_vars

\* Direct calls with the limit changed at any moment.
NextLimite ==
  \/ CriarCoracao
  \/ Finish
  \/ DispararTimer
  \/ PassarTempo
  \/ AjustarMaximoCoracoesSimultaneos

SpecLimite == Init /\ [][NextLimite]_vars

\* Pulsing hearts only.
NextPulso ==
  \/ CriarCoracaoPulsante
  \/ Finish
  \/ DispararTimer
  \/ PassarTempo

SpecPulso == Init /\ [][NextPulso]_vars

\* Rings only.
NextCirculo ==
  \/ CirculoDeCoracoes
  \/ DispararCirculo
  \/ Finish
  \/ DispararTimer
  \/ PassarTempo

SpecCirculo == Init /\ [][NextCirculo]_vars

\* One mousemove listener and the movement samples it receives.
NextMouse ==
  \/ CoracoesComMouse
  \/ MoverMouse
  \/ Finish
  \/ DispararTimer
  \/ PassarTempo

SpecMouse == Init /\ [][NextMouse]_vars

\* One page transition.
NextTransicao ==
  \/ TransicaoComCoracoes
  \/ DispararTransicao
  \/ Finish
  \/ DispararTimer
  \/ PassarTempo

SpecTransicao == Init /\ [][NextTransicao]_vars

Next ==
  \/ NextFixo
  \/ Externo
  \/ AjustarMaximoCoracoesSimultaneos
  \/ CriarCoracaoPulsante
  \/ CirculoDeCoracoes
  \/ DispararCirculo
  \/ CoracoesComMouse
  \/ MoverMouse
  \/ TransicaoComCoracoes
  \/ DispararTransicao

Spec == Init /\ [][Next]_vars

\* ------------------------------------------------------------- properties
\* n < limite, n an integer counter and limite a stored number.
Menor(n, limite) == limite.classe = "Infinity" \/ 2 * n < limite.meios

InteiroPositivo(v) ==
  /\ v.tipo = "number"
  /\ v.classe = "finito"
  /\ v.meios > 0
  /\ v.meios % 2 = 0

\* This step ran the callback of the timer at the head of the queue.
RodouTimer == fila # <<>> /\ fila' = Tail(fila)

RodouFallback(h) ==
  RodouTimer /\ Head(fila).tipo = "fallback" /\ Head(fila).h = h

RodouChuva == RodouTimer /\ Head(fila).tipo = "chuva"

\* This step was a call of window.criarCoracao.
ChamouCriarCoracao == ultima'.op = "criarCoracao"

FallbackPendente(h) ==
  \E t \in Pendentes : t.tipo = "fallback" /\ t.h = h

\* Both completion triggers of heart h have run.
Encerrado(h) == coracoes[h].onfinish = "disparado" /\ ~ FallbackPendente(h)

\* C1: with the limit fixed, coracoesAtivos never exceeds
\* maxCoracoesSimultaneos, whatever the interleaving of direct calls, batch
\* callbacks, onfinish callbacks and fallback timers.
C1_NuncaExcedeOLimite ==
  2 * coracoesAtivos <= maxCoracoesSimultaneos.meios

\* The counter is at the limit, two hearts having been admitted and a batch
\* scheduled.
C1_Witness ==
  /\ 2 * coracoesAtivos = maxCoracoesSimultaneos.meios
  /\ agendados > 0
  /\ Len(coracoes) >= 2

\* C2: every admitted heart decrements the counter exactly once over its
\* life: never twice, and once when both of its triggers have run.
C2_UmDecrementoPorCoracao ==
  \A h \in Ids :
    /\ coracoes[h].decrementos <= 1
    /\ Encerrado(h) => coracoes[h].decrementos = 1

\* C3: coracoesAtivos is never negative.
C3_NuncaNegativo == coracoesAtivos >= 0

\* C4: with the limit fixed, the hearts attached to document.body are never
\* more than maxCoracoesSimultaneos.
C4_VivosDentroDoLimite ==
  2 * Cardinality(NoDOM) <= maxCoracoesSimultaneos.meios

\* C5: a criarCoracao call made while coracoesAtivos >= the limit (a direct
\* call, or the call of a batch callback) returns null, creates no heart,
\* leaves the counter alone and schedules no timer.
C5_RejeicaoSemEfeito ==
  [][(MaiorOuIgual(coracoesAtivos, maxCoracoesSimultaneos)
        /\ (ChamouCriarCoracao \/ RodouChuva))
      => /\ ChamouCriarCoracao => ultima'.h = NULL
         /\ coracoes' = coracoes
         /\ coracoesAtivos' = coracoesAtivos
         /\ Pendentes' \subseteq Pendentes]_vars

\* A direct call has just been rejected at the limit.
C5_Witness ==
  /\ ultima = Chamada("criarCoracao", NULL, Indefinido)
  /\ MaiorOuIgual(coracoesAtivos, maxCoracoesSimultaneos)
  /\ coracoesAtivos > 0

\* C6: every admitted heart is eventually retired (detached and its slot
\* released), given only that timers eventually run.
Retirado(h) ==
  h \in Ids /\ ~ coracoes[h].noDOM /\ coracoes[h].decrementos >= 1

C6_TodoCoracaoERetirado ==
  \A h \in 1 .. MaxCoracoes : [](h \in Ids => <>Retirado(h))

\* C7: when onfinish has already cleaned heart h up, the fallback callback
\* of h changes neither the counter nor any heart.
C7_FallbackDepoisDoOnfinish ==
  [][\A h \in Ids :
       (RodouFallback(h) /\ coracoes[h].onfinish = "disparado")
         => /\ coracoesAtivos' = coracoesAtivos
            /\ coracoes' = coracoes]_vars

\* Heart 1 was cleaned up by onfinish and its fallback has run since (both
\* triggers have run and the counter was decremented once).
C7_Witness ==
  /\ Len(coracoes) >= 1
  /\ Encerrado(1)
  /\ coracoes[1].decrementos = 1
  /\ coracoesAtivos = 0

\* C8: a criarCoracao call returns a heart exactly when coracoesAtivos was
\* below the limit, and then the counter is one more and the heart is
\* attached, all in the one step; otherwise it returns null and the counter
\* is as it was.
C8_AdmissaoAtomica ==
  [][ChamouCriarCoracao
      => /\ (ultima'.h # NULL) <=> Menor(coracoesAtivos, maxCoracoesSimultaneos)
         /\ ultima'.h # NULL
              => /\ coracoesAtivos' = coracoesAtivos + 1
                 /\ ultima'.h = Len(coracoes) + 1
                 /\ NoDOM' = NoDOM \cup {ultima'.h}
         /\ ultima'.h = NULL
              => /\ coracoesAtivos' = coracoesAtivos
                 /\ NoDOM' = NoDOM]_vars

\* With the limit 1, heart 1 has been retired and a later call returned
\* heart 2.
C8_Witness ==
  /\ maxCoracoesSimultaneos = Inteiro(1)
  /\ ultima = Chamada("criarCoracao", 2, Indefinido)
  /\ ~ coracoes[1].noDOM
  /\ coracoesAtivos = 1

\* This step was a call of window.ajustarMaximoCoracoesSimultaneos.
ChamouAjustar == ultima'.op = "ajustarMaximoCoracoesSimultaneos"

\* C9: ajustarMaximoCoracoesSimultaneos(valor) replaces the limit by valor
\* when valor is a positive integer, and leaves the limit as it was for
\* every other argument.
C9_SoInteiroPositivo ==
  [][ChamouAjustar
      => maxCoracoesSimultaneos' =
           IF InteiroPositivo(ultima'.arg)
           THEN ultima'.arg
           ELSE maxCoracoesSimultaneos]_vars

\* C10: chuvaDeCoracoes(quantidade, intervalo) schedules exactly quantidade
\* attempts (floor(0.6 * quantidade) on mobile), the i-th with the delay
\* i * intervalo, and the attempts of a batch run in increasing order.
Esperado(quantidade) ==
  IF isMobile
  THEN CHOOSE n \in 0 .. quantidade :
         10 * n <= 6 * quantidade /\ 6 * quantidade < 10 * (n + 1)
  ELSE quantidade

DaChuva(ts) == {t \in ts : t.tipo = "chuva"}

PassoDaChuva ==
  /\ agendados' # agendados
       => LET novos == {t \in DaChuva(Pendentes') : t.lote = agendados + 1}
              n == agendados' - agendados
          IN /\ Cardinality(novos) = n
             /\ {t.i : t \in novos} = 0 .. (n - 1)
             /\ \A t \in novos :
                  /\ n = Esperado(t.quantidade)
                  /\ t.delay = t.i * t.intervalo
                  /\ t.falta = t.delay
  /\ agendados' = agendados
       => {<<t.lote, t.i>> : t \in DaChuva(Pendentes')}
            \subseteq {<<t.lote, t.i>> : t \in DaChuva(Pendentes)}
  /\ RodouChuva
       => \A u \in DaChuva(Pendentes') :
            u.lote = Head(fila).lote
              => (u.i > Head(fila).i /\ u.delay >= Head(fila).delay)

C10_ChuvaAgendada == [][PassoDaChuva]_vars

\* Of a batch of two attempts 50 ms apart, the first has run and the second
\* is pending.
C10_Witness ==
  \E t \in DaChuva(Pendentes) :
    /\ t.i = 1
    /\ t.delay = 50
    /\ ~ \E u \in DaChuva(Pendentes) : u.lote = t.lote /\ u.i = 0

\* n <= limite, n an integer counter and limite a stored number.
NaoExcede(n, limite) == limite.classe = "Infinity" \/ 2 * n <= limite.meios

EntreZeroEOLimite ==
  /\ coracoesAtivos >= 0
  /\ NaoExcede(coracoesAtivos, maxCoracoesSimultaneos)

PassoQueCresce ==
  coracoesAtivos' > coracoesAtivos
    => (/\ Menor(coracoesAtivos, maxCoracoesSimultaneos)
        /\ coracoesAtivos' = coracoesAtivos + 1
        /\ maxCoracoesSimultaneos' = maxCoracoesSimultaneos)

PassoDoAjuste ==
  /\ ChamouAjustar
       => (/\ coracoesAtivos' = coracoesAtivos
           /\ coracoes' = coracoes
           /\ timers' = timers
           /\ fila' = fila)
  /\ (ChamouCriarCoracao
        /\ MaiorOuIgual(coracoesAtivos, maxCoracoesSimultaneos))
       => (/\ ultima'.h = NULL
           /\ coracoes' = coracoes
           /\ coracoesAtivos' = coracoesAtivos)

\* C15: a call of the setter changes nothing but the limit: the counter, the
\* hearts and the pending callbacks stay as they were; and while the counter
\* is at or above the (lowered) limit every spawn is rejected.
C15_SoMudaOLimite == [][PassoDoAjuste]_vars

\* A spawn has just been rejected with the counter above the limit, which
\* can only come from lowering the limit.
C15_Witness ==
  /\ ultima = Chamada("criarCoracao", NULL, Indefinido)
  /\ ~ NaoExcede(coracoesAtivos, maxCoracoesSimultaneos)
  /\ Cardinality(NoDOM) = coracoesAtivos

EDaChuva(t) == t.tipo = "chuva"

\* A callback of a rain batch leaves the other attempts of the batches as
\* scheduled, and admits its heart exactly when the counter is below the
\* limit as it runs.
PassoDeUmaTentativa ==
  RodouChuva
    => (/\ SelectSeq(timers', EDaChuva) = SelectSeq(timers, EDaChuva)
        /\ SelectSeq(fila', EDaChuva) = SelectSeq(Tail(fila), EDaChuva)
        /\ IF Menor(coracoesAtivos, maxCoracoesSimultaneos)
           THEN /\ Len(coracoes') = Len(coracoes) + 1
                /\ coracoesAtivos' = coracoesAtivos + 1
           ELSE /\ coracoes' = coracoes
                /\ coracoesAtivos' = coracoesAtivos)

\* C16: in a rain batch the rejection of one attempt neither cancels nor
\* alters the attempts still scheduled: each one stays pending with its
\* delay, and when it runs it is admitted exactly when coracoesAtivos is
\* below maxCoracoesSimultaneos at that moment.
C16_RejeicaoNaoCancelaALote == [][PassoDeUmaTentativa]_vars

\* Attempt 0 of a batch of two has just been rejected (the only heart was
\* created before the batch and still holds the only slot) and attempt 1
\* is pending with its whole delay.
C16_Witness ==
  /\ maxCoracoesSimultaneos = Inteiro(1)
  /\ coracoesAtivos = 1
  /\ Len(coracoes) = 1
  /\ coracoes[1].falta < DuracaoAnimacao(100)
  /\ \E t \in DaChuva(Range(timers)) :
       /\ t.i = 1
       /\ t.falta = t.delay
       /\ t.delay > 0
       /\ ~ \E u \in DaChuva(Pendentes) : u.lote = t.lote /\ u.i = 0

\* C18: with no external removal, coracoesAtivos equals the number of
\* hearts attached to document.body in every reachable state.
C18_ContadorIgualAosAnexados == coracoesAtivos = Cardinality(NoDOM)

\* A call of criarCoracaoPulsante: the base call answers null exactly when
\* the counter is at the limit, and then nothing changes; otherwise one slot
\* is taken, by the base heart, which is returned and set pulsing.
PassoDoPulsante ==
  ChamouCriarCoracao
    => IF MaiorOuIgual(coracoesAtivos, maxCoracoesSimultaneos)
       THEN /\ ultima'.h = NULL
            /\ pulsantes' = pulsantes
            /\ coracoesAtivos' = coracoesAtivos
            /\ coracoes' = coracoes
            /\ timers' = timers
       ELSE /\ ultima'.h = Len(coracoes) + 1
            /\ coracoes' = Append(coracoes, coracoes'[ultima'.h])
            /\ coracoes'[ultima'.h].noDOM
            /\ pulsantes' = pulsantes \cup {ultima'.h}
            /\ coracoesAtivos' = coracoesAtivos + 1

\* C12: criarCoracaoPulsante returns null, starts no pulsing animation and
\* leaves the counter unchanged whenever its base spawn is rejected; when
\* admitted it takes exactly one slot and returns the heart.
C12_PulsanteSegueABase == [][PassoDoPulsante]_vars

\* A pulsing heart is alive and a second call has just been rejected.
C12_Witness ==
  /\ ultima = Chamada("criarCoracao", NULL, Indefinido)
  /\ pulsantes \cap NoDOM # {}
  /\ MaiorOuIgual(coracoesAtivos, maxCoracoesSimultaneos)

DoCirculo(ts) == {t \in ts : t.tipo = "circulo"}

\* A call circuloDeCoracoes(x, y, quantidade, {raio, intervalo}) schedules
\* quantidade attempts, the i-th at delay i * intervalo and at the point at
\* angle i / quantidade of a turn on the circle of radius raio around (x, y).
PassoDoCirculo ==
  agendados' # agendados
    => LET novos == {t \in DoCirculo(Pendentes') : t.lote = agendados + 1}
           n == agendados' - agendados
       IN /\ Cardinality(novos) = n
          /\ {t.i : t \in novos} = 0 .. (n - 1)
          /\ \A t \in novos :
               /\ t.quantidade = n
               /\ t.delay = t.i * t.intervalo
               /\ \E x \in Centros, y \in Centros :
                    /\ t.x = x + Cos(Quartos(t.i, n)) * t.raio
                    /\ t.y = y + Sin(Quartos(t.i, n)) * t.raio
               /\ (n = 4 /\ t.raio = 50)
                    => <<t.x, t.y>> =
                         <<<<150, 100>>, <<100, 150>>, <<50, 100>>,
                           <<100, 50>>>>[t.i + 1]

\* C13: circuloDeCoracoes(x, y, count, {radius, interval}) schedules exactly
\* count attempts, the i-th at delay i * interval and at the point
\* (x + radius cos(2 pi i / count), y + radius sin(2 pi i / count)); for
\* x = y = 100, count = 4, radius = 50 the points are (150,100), (100,150),
\* (50,100), (100,50) in that order.
C13_CirculoAgendado == [][PassoDoCirculo]_vars

EDaTransicao(t) == t.tipo \in {"fadeOut", "navegar"}

\* The call schedules, besides the rain batch, the start of the fade and
\* then the navigation, the latter tempoEspera after the call; the
\* navigation runs at most once, and not before the fade has started.
PassoDaTransicao ==
  /\ (transicao.fadeOut = "nenhum" /\ transicao'.fadeOut # "nenhum")
       => LET novos == SelectSeq(timers' \o fila', EDaTransicao)
          IN /\ Len(novos) = 2
             /\ novos[1].tipo = "fadeOut"
             /\ novos[2].tipo = "navegar"
             /\ novos[2].delay = transicao'.tempoEspera
  /\ transicao'.navegacoes <= 1
  /\ transicao'.navegacoes > transicao.navegacoes
       => (/\ transicao.fadeOut = "iniciado"
           /\ RodouTimer
           /\ Head(fila).delay = transicao.tempoEspera)

\* C17: transicaoComCoracoes(url, count, waitMs) schedules exactly two
\* deferred actions besides the rain batch, the start of the overlay fade
\* and then the navigation; for every waitMs the fade starts before the
\* navigation, and the navigation happens exactly once, waitMs after the call.
C17_FadeAntesDeNavegar == [][PassoDaTransicao]_vars

\* This step was the listener handling one movement sample.
Amostra == mouse.ligado /\ ultima'.op \in {"mousemove", "criarCoracao"}

\* The sample leads to a call of criarCoracao only when the drawn number is
\* below the chance given and more than the intervaloMinimo given has
\* passed since the last call; and it does when the chance given is 1 and
\* that time has passed.
PassoDasDuasCondicoes ==
  Amostra
    => (/\ ultima'.op = "criarCoracao"
             => (/\ mouse.desde > mouse.intervaloMinimo
                 /\ mouse'.sorteio < mouse.chance)
        /\ mouse.desde <= mouse.intervaloMinimo
             => ultima'.op = "mousemove"
        /\ (mouse.desde > mouse.intervaloMinimo /\ mouse.chance = 100)
             => ultima'.op = "criarCoracao")

\* C11: a movement sample leads to a spawn call only if both gates pass (the
\* draw is below chance, and more than minInterval ms have passed since the
\* last emission): two spawn calls of one listener are more than minInterval
\* apart, a sample inside the cooldown spawns nothing, and a sample after
\* the cooldown with chance = 1 spawns again.
C11_DuasCondicoes == [][PassoDasDuasCondicoes]_vars

\* ultimoCoracao is set to the present exactly when both tests of the
\* listener pass, whatever criarCoracao answers; otherwise it and the
\* counter are left as they were.
PassoDoUltimoCoracao ==
  Amostra
    => IF /\ mouse.desde > IntervaloMinimo(mouse)
          /\ mouse'.sorteio < Chance(mouse)
       THEN /\ mouse'.desde = 0
            /\ ultima'.op = "criarCoracao"
            /\ MaiorOuIgual(coracoesAtivos, maxCoracoesSimultaneos)
                 => (/\ ultima'.h = NULL
                     /\ coracoesAtivos' = coracoesAtivos
                     /\ coracoes' = coracoes)
       ELSE /\ mouse'.desde = mouse.desde
            /\ ultima'.op = "mousemove"
            /\ coracoesAtivos' = coracoesAtivos
            /\ coracoes' = coracoes

\* C19: in coracoesComMouse, ultimoCoracao is updated exactly when both gates
\* pass, before and whatever the limiter answers: a spawn rejected by the
\* limit still starts a new cooldown, and a sample that fails either gate
\* leaves the timestamp and the counter unchanged.
C19_CooldownMesmoRejeitado == [][PassoDoUltimoCoracao]_vars

\* The listener's spawn has just been rejected by the limit, some time after
\* its previous call, and the cooldown has restarted.
C19_Witness ==
  /\ mouse.ligado
  /\ mouse.desde = 0
  /\ ultima = Chamada("criarCoracao", NULL, Indefinido)
  /\ MaiorOuIgual(coracoesAtivos, maxCoracoesSimultaneos)
  /\ \E h \in NoDOM : coracoes[h].falta < DuracaoAnimacao(100)

====
